---- MODULE Spec2Model ----
(***************************************************************************)
(* State-machine model of the synthetic log emitters of                    *)
(* fabric-streaming-poc:                                                   *)
(*   - send_events_to_eventhub  (scripts/send_logs_to_eventhub.py)         *)
(*   - send_continuous_stream   (scripts/send_logs_to_eventhub.py)         *)
(*   - generate_partitioned_files (scripts/generate_partitioned_logs.py)   *)
(* Each emitter has its own specification (BatchSpec, ContSpec, FileSpec); *)
(* the variables of the emitters that do not run stay at their initial     *)
(* values.  Spec is a run of any one emitter, FileRerunSpec runs the file  *)
(* generator again on the same output directory, LibSpec calls the pure    *)
(* functions on their own, and MainSpec is a whole program: main() of one  *)
(* of the three scripts with the emitter it calls.                         *)
(***************************************************************************)
EXTENDS Integers, Sequences, FiniteSets, TLC

VARIABLES
    \* ---- producer and counters shared by the two stream emitters
    pc,                 \* position of the running emitter
    events_per_batch,   \* parameter events_per_batch
    event_data_batch,   \* records accepted into the current EventDataBatch
    sent,               \* the batches passed to producer.send_batch, in order
    sent_count,         \* local sent_count
    batch_count,        \* local batch_count
    built,              \* number of generate_log_record calls so far
    \* ---- send_events_to_eventhub
    total_events,       \* parameter total_events (after the None default)
    batch_events,       \* local batch_events
    record,             \* <<>> or <<r>>: the record built for the pending add
    rejects,            \* number of ValueError rejections by the transport
    carry,              \* <<>> or <<c>>: what the last rejection left behind
    start_time,         \* parameter start_time, microseconds after Origin
    end_time,           \* parameter end_time, microseconds after Origin
    realtime_mode,      \* parameter realtime_mode
    total_events_arg,   \* parameter total_events as passed: <<>> is None
    now,                \* last reading of datetime.now(), in microseconds
    \* ---- send_continuous_stream
    events_per_second,  \* parameter events_per_second
    duration_seconds,   \* parameter duration_seconds: <<>> is None, <<d>> is d
    clock,              \* time.time(), in ticks
    c_start_time,       \* local start_time
    batch_start,        \* local batch_start
    batch_duration,     \* local batch_duration
    sleep_time,         \* local sleep_time
    prev_start,         \* batch_start of the cycle before the current one
    added,              \* iterations done of "for _ in range(events_per_batch)"
    stop,               \* <<>> or <<s>>: why and where the loop was left
    \* ---- generate_partitioned_files
    f_start_time,       \* parameter start_time, seconds after Epoch
    f_end_time,         \* parameter end_time, seconds after Epoch
    records_per_file,   \* parameter records_per_file
    files_per_minute,   \* parameter files_per_minute
    current_time,       \* local current_time
    partition_path,     \* local partition_path, as its five numbers
    file_no,            \* loop index of "for _ in range(files_per_minute)"
    records,            \* local records: the record list of the last file
    fs,                 \* files written, in order: [dir, lines]
    dirs,               \* partition directories that exist
    total_files,        \* local total_files
    total_records,      \* local total_records
    runs,               \* invocations of the generator so far
    \* ---- what the sinks were handed, and the failure of a send
    handed,             \* seq of the records passed to add or written, in order
    failure,            \* <<>> or <<f>>: the send_batch call that raised
    \* ---- record builder and field generators called on their own
    call,               \* <<>> or <<c>>: the function called and its arguments
    result,             \* <<>> or <<r>>: what the call returned
    template,           \* the module-level dict TEMPLATE
    \* ---- main() of the three scripts
    config,             \* the merged configuration
    producer,           \* "none", "open" or "closed"
    exit_status,        \* "" while running, then how the program ended
    closes,             \* number of producer.close() calls so far
    ran,                \* the emitters main has called so far
    \* ---- pauses of send_events_to_eventhub
    delay_between_batches,  \* parameter delay_between_batches, in seconds
    pauses              \* time.sleep calls so far: [after, len], in order

streamVars == <<pc, events_per_batch, event_data_batch, sent, sent_count,
                batch_count, built>>
batchVars == <<total_events, batch_events, record, rejects, carry>>
contVars == <<events_per_second, duration_seconds, clock, c_start_time,
              batch_start, batch_duration, sleep_time, prev_start, added,
              stop>>
fileVars == <<f_start_time, f_end_time, records_per_file, files_per_minute,
              current_time, partition_path, file_no, records, fs, dirs,
              total_files, total_records, runs>>
stampVars == <<start_time, end_time, realtime_mode, total_events_arg, now>>
histVars == <<handed, failure>>
libVars == <<call, result, template>>
mainVars == <<config, producer, exit_status, closes, ran>>
delayVars == <<delay_between_batches, pauses>>
vars == <<streamVars, batchVars, contVars, fileVars, stampVars, histVars,
          libVars, mainVars, delayVars>>

-----------------------------------------------------------------------------
(* Bounds of the model *)

MaxTotal == 4        \* largest total_events
MaxPerBatch == 3     \* largest events_per_batch
MaxRejects == 2      \* most rejections the transport makes in one run
NumBodies == 2       \* distinct random contents generate_log_record can draw
MaxEps == 2          \* largest events_per_second
MaxDuration == 2     \* largest duration_seconds
MaxWork == 3         \* longest build-and-send time of one cycle, in ticks
MaxCycles == 3       \* cycles of the continuous loop that are explored
MaxMinute == 3       \* latest minute after Epoch of start_time and end_time
MaxRecords == 2      \* largest records_per_file
MaxFiles == 2        \* largest files_per_minute

-----------------------------------------------------------------------------
(* Helpers *)

Max(a, b) == IF a >= b THEN a ELSE b

RECURSIVE Flatten(_)
Flatten(ss) == IF ss = <<>> THEN <<>> ELSE Head(ss) \o Flatten(Tail(ss))

RECURSIVE SumLen(_)
SumLen(ss) == IF ss = <<>> THEN 0 ELSE Len(Head(ss)) + SumLen(Tail(ss))

\* Initial values of the variables of the emitters that are not running
BatchIdle ==
    /\ total_events = 0 /\ batch_events = 0 /\ record = <<>>
    /\ rejects = 0 /\ carry = <<>>

StampIdle ==
    /\ start_time = 0 /\ end_time = 0 /\ realtime_mode = FALSE
    /\ total_events_arg = <<>> /\ now = 0

HistIdle == handed = <<>> /\ failure = <<>>

LibIdle == call = <<>> /\ result = <<>> /\ template = <<>>

MainIdle ==
    /\ config = <<>> /\ producer = "none" /\ exit_status = ""
    /\ closes = 0 /\ ran = {}

DelayIdle == delay_between_batches = 0 /\ pauses = <<>>

ContIdle ==
    /\ events_per_second = 1 /\ duration_seconds = <<>> /\ clock = 0
    /\ c_start_time = 0 /\ batch_start = 0 /\ batch_duration = 0
    /\ sleep_time = 0 /\ prev_start = 0 /\ added = 0 /\ stop = <<>>

FileIdle ==
    /\ f_start_time = 0 /\ f_end_time = 0 /\ records_per_file = 0
    /\ files_per_minute = 0 /\ current_time = 0 /\ file_no = 0
    /\ partition_path = <<>>
    /\ records = <<>> /\ fs = <<>> /\ dirs = {} /\ total_files = 0
    /\ total_records = 0 /\ runs = 0

-----------------------------------------------------------------------------
(* send_events_to_eventhub *)

\* Datetimes are whole microseconds after an origin, timedeltas are whole
\* microseconds: the resolution of datetime and timedelta
MicrosPerSecond == 1000000

QuarterSecond == MicrosPerSecond \div 4

OneSecond == MicrosPerSecond

\* The start_time explored
StartTimes == {3 * OneSecond}

\* end_time - start_time explored with a large explicit total_events, in
\* microseconds
MicroSpans == {-1, 0, 1, 2}

\* end_time - start_time explored with total_events None, in quarters of a
\* second
Quarters == (-2)..6

\* The nearest whole number to num / den, halves going to the even
\* neighbour: the rounding of timedelta * float.  For the values explored
\* the error of the float quotient sent_count / total_events is far below
\* the distance of num / den from the nearest rounding boundary, or zero.
RoundHalfEven(num, den) ==
    LET q == num \div den
        r == num % den
    IN  IF 2 * r < den THEN q
        ELSE IF 2 * r > den THEN q + 1
        ELSE IF q % 2 = 0 THEN q ELSE q + 1

\* int(num / den): the fraction is dropped, towards zero
TruncDiv(num, den) ==
    IF num >= 0 THEN num \div den ELSE -((-num) \div den)

\* mutant of ResolveTotal: a total_events of 0 is treated as absent
ResolveTotal_Falsy(arg, s, e) ==
    IF arg = <<>> \/ arg[1] = 0
    THEN TruncDiv(2 * (e - s), MicrosPerSecond)
    ELSE arg[1]

\* if total_events is None:
\*     duration_seconds = (end_time - start_time).total_seconds()
\*     total_events = int(duration_seconds * 2)
ResolveTotal(arg, s, e) ==
    IF arg = <<>>
    THEN TruncDiv(2 * (e - s), MicrosPerSecond)
    ELSE arg[1]

\* mutant of Interpolate: progress is the number of records built
Interpolate_Built(k) ==
    start_time + RoundHalfEven((end_time - start_time) * built, total_events)

\* start_time + (end_time - start_time) * (k / total_events)
Interpolate(k) ==
    start_time + RoundHalfEven((end_time - start_time) * k, total_events)

\* generate_log_record for the record at position sent_count, with the
\* timestamp it is given; its content is drawn at random
BatchRecord(body, ts) ==
    [idx |-> sent_count, body |-> body, seq |-> built, ts |-> ts]

\* The delay_between_batches explored besides 0, in seconds
Delays == {-1, 1}

\* The calls explored: <<total_events, end_time - start_time, realtime_mode,
\* delay_between_batches>>
StampCases ==
    {<<<<n>>, OneSecond, FALSE, 0>> : n \in (-1)..MaxTotal}
    \cup {<<<<n>>, OneSecond, FALSE, d>> : n \in 1..2, d \in Delays}
    \cup {<<<<MaxTotal - 1>>, d, FALSE, 0>> : d \in MicroSpans}
    \cup {<<<<>>, q * QuarterSecond, FALSE, 0>> : q \in Quarters}
    \cup {<<<<2>>, OneSecond, TRUE, 0>>}

\* while sent_count < total_events
OuterCond == sent_count < total_events

\* mutant of InnerCond: off-by-one batch size test
InnerCond_OffByOne ==
    batch_events <= events_per_batch /\ sent_count < total_events

\* while batch_events < events_per_batch and sent_count < total_events
InnerCond == batch_events < events_per_batch /\ sent_count < total_events

\* mutant of ShouldSend: the batch is sent whatever it holds
ShouldSend_Always == batch_events >= 0

\* mutant of ShouldSend: a batch holding a single record is not sent
ShouldSend_Strict == batch_events > 1

\* if batch_events > 0
ShouldSend == batch_events > 0

BatchInit ==
    /\ pc = "outer"
    /\ start_time \in StartTimes
    /\ \E c \in StampCases :
           /\ total_events_arg = c[1]
           /\ end_time = start_time + c[2]
           /\ realtime_mode = c[3]
           /\ delay_between_batches = c[4]
    /\ pauses = <<>>
    /\ total_events = ResolveTotal(total_events_arg, start_time, end_time)
    /\ now = end_time + OneSecond
    /\ events_per_batch \in 0..MaxPerBatch
    /\ event_data_batch = <<>> /\ sent = <<>>
    /\ sent_count = 0 /\ batch_count = 0 /\ built = 0
    /\ batch_events = 0 /\ record = <<>> /\ rejects = 0 /\ carry = <<>>
    /\ ContIdle /\ FileIdle /\ HistIdle /\ LibIdle /\ MainIdle

\* outer loop test true: producer.create_batch(), batch_events = 0
BatchCreate ==
    /\ pc = "outer" /\ OuterCond
    /\ event_data_batch' = <<>>
    /\ batch_events' = 0
    /\ pc' = "inner"
    /\ UNCHANGED <<events_per_batch, sent, sent_count, batch_count, built,
                   total_events, record, rejects, carry, contVars, fileVars,
                   stampVars, histVars, libVars, mainVars, delayVars>>

\* outer loop test false: return sent_count, batch_count
BatchReturn ==
    /\ pc = "outer" /\ ~OuterCond
    /\ pc' = "done"
    /\ UNCHANGED <<events_per_batch, event_data_batch, sent, sent_count,
                   batch_count, built, batchVars, contVars, fileVars,
                   stampVars, histVars, libVars, mainVars, delayVars>>

\* inner loop test true: the timestamp is datetime.now() in realtime mode
\* and interpolated otherwise, and the record for position sent_count is
\* built with it
BatchBuild ==
    /\ pc = "inner" /\ InnerCond
    /\ \E body \in 1..NumBodies, tick \in 0..1 :
           IF realtime_mode
           THEN /\ now' = now + tick
                /\ record' = <<BatchRecord(body, now + tick)>>
           ELSE /\ tick = 0
                /\ now' = now
                /\ record' = <<BatchRecord(body, Interpolate(sent_count))>>
    /\ built' = built + 1
    /\ pc' = "add"
    /\ UNCHANGED <<events_per_batch, event_data_batch, sent, sent_count,
                   batch_count, total_events, batch_events, rejects, carry,
                   contVars, fileVars, start_time, end_time, realtime_mode,
                   total_events_arg, histVars, libVars, mainVars, delayVars>>

\* inner loop test false: fall through to the send
BatchSeal ==
    /\ pc = "inner" /\ ~InnerCond
    /\ pc' = "flush"
    /\ UNCHANGED <<events_per_batch, event_data_batch, sent, sent_count,
                   batch_count, built, batchVars, contVars, fileVars,
                   stampVars, histVars, libVars, mainVars, delayVars>>

\* mutant of BatchAddAccept: the record is put at the front of the batch
BatchAddAccept_Front ==
    /\ pc = "add"
    /\ event_data_batch' = <<record[1]>> \o event_data_batch
    /\ batch_events' = batch_events + 1
    /\ sent_count' = sent_count + 1
    /\ record' = <<>>
    /\ pc' = "inner"
    /\ handed' = Append(handed, record[1].seq)
    /\ UNCHANGED <<events_per_batch, sent, batch_count, built, total_events,
                   rejects, carry, contVars, fileVars,
                   stampVars, failure, libVars, mainVars, delayVars>>

\* event_data_batch.add succeeds: batch_events += 1, sent_count += 1
BatchAddAccept ==
    /\ pc = "add"
    /\ event_data_batch' = Append(event_data_batch, record[1])
    /\ batch_events' = batch_events + 1
    /\ sent_count' = sent_count + 1
    /\ record' = <<>>
    /\ pc' = "inner"
    /\ handed' = Append(handed, record[1].seq)
    /\ UNCHANGED <<events_per_batch, sent, batch_count, built, total_events,
                   rejects, carry, contVars, fileVars,
                   stampVars, failure, libVars, mainVars, delayVars>>

\* mutant of BatchAddReject: the rejected record is counted as sent
BatchAddReject_Counted ==
    /\ pc = "add"
    /\ rejects < MaxRejects
    /\ rejects' = rejects + 1
    /\ carry' = <<[rec |-> record[1], at |-> batch_count,
                   accepted |-> event_data_batch]>>
    /\ record' = <<>>
    /\ sent_count' = sent_count + 1
    /\ pc' = "flush"
    /\ handed' = Append(handed, record[1].seq)
    /\ UNCHANGED <<events_per_batch, event_data_batch, sent,
                   batch_count, built, total_events, batch_events,
                   contVars, fileVars,
                   stampVars, failure, libVars, mainVars, delayVars>>

\* event_data_batch.add raises ValueError: break; the record is not kept
BatchAddReject ==
    /\ pc = "add"
    /\ rejects < MaxRejects
    /\ rejects' = rejects + 1
    /\ carry' = <<[rec |-> record[1], at |-> batch_count,
                   accepted |-> event_data_batch]>>
    /\ record' = <<>>
    /\ pc' = "flush"
    /\ handed' = Append(handed, record[1].seq)
    /\ UNCHANGED <<events_per_batch, event_data_batch, sent, sent_count,
                   batch_count, built, total_events, batch_events,
                   contVars, fileVars,
                   stampVars, failure, libVars, mainVars, delayVars>>

\* batch_events > 0: producer.send_batch(event_data_batch), batch_count += 1
BatchSend ==
    /\ pc = "flush" /\ ShouldSend
    /\ sent' = Append(sent, event_data_batch)
    /\ batch_count' = batch_count + 1
    /\ pc' = "delay"
    /\ UNCHANGED <<events_per_batch, event_data_batch, sent_count, built,
                   batchVars, contVars, fileVars,
                   stampVars, histVars, libVars, mainVars, delayVars>>

\* mutant of BatchSendFail: the failed send is attempted again
BatchSendFail_Retry ==
    /\ pc = "flush" /\ ShouldSend
    /\ failure' = <<[before |-> sent, unit |-> event_data_batch]>>
    /\ pc' = "flush"
    /\ UNCHANGED <<events_per_batch, event_data_batch, sent, sent_count,
                   batch_count, built, batchVars, contVars, fileVars,
                   stampVars, handed, libVars, mainVars, delayVars>>

\* batch_events > 0 and producer.send_batch raises: nothing catches the
\* exception inside send_events_to_eventhub, which is left at once
BatchSendFail ==
    /\ pc = "flush" /\ ShouldSend
    /\ failure' = <<[before |-> sent, unit |-> event_data_batch]>>
    /\ pc' = "raised"
    /\ UNCHANGED <<events_per_batch, event_data_batch, sent, sent_count,
                   batch_count, built, batchVars, contVars, fileVars,
                   stampVars, handed, libVars, mainVars, delayVars>>

\* batch_events = 0: nothing is sent
BatchSkip ==
    /\ pc = "flush" /\ ~ShouldSend
    /\ pc' = "delay"
    /\ UNCHANGED <<events_per_batch, event_data_batch, sent, sent_count,
                   batch_count, built, batchVars, contVars, fileVars,
                   stampVars, histVars, libVars, mainVars, delayVars>>

\* if delay_between_batches > 0
ShouldSleep == delay_between_batches > 0

\* Pauses explored in one run: one more than the iterations of the outer
\* loop of a run that returns
MaxPauses == MaxTotal + MaxRejects + 1

\* delay_between_batches > 0: time.sleep(delay_between_batches), at the end
\* of the iteration of the outer loop
BatchSleep ==
    /\ pc = "delay" /\ ShouldSleep
    /\ Len(pauses) < MaxPauses
    /\ pauses' = Append(pauses, [after |-> batch_count,
                                 len |-> delay_between_batches])
    /\ now' = now + delay_between_batches * OneSecond
    /\ pc' = "outer"
    /\ UNCHANGED <<events_per_batch, event_data_batch, sent, sent_count,
                   batch_count, built, batchVars, contVars, fileVars,
                   start_time, end_time, realtime_mode, total_events_arg,
                   histVars, libVars, mainVars, delay_between_batches>>

\* delay_between_batches <= 0: the next iteration starts at once
BatchNoSleep ==
    /\ pc = "delay" /\ ~ShouldSleep
    /\ pc' = "outer"
    /\ UNCHANGED <<events_per_batch, event_data_batch, sent, sent_count,
                   batch_count, built, batchVars, contVars, fileVars,
                   stampVars, histVars, libVars, mainVars, delayVars>>

BatchNext ==
    \/ BatchCreate
    \/ BatchReturn
    \/ BatchBuild
    \/ BatchSeal
    \/ BatchAddAccept
    \/ BatchAddReject
    \/ BatchSend
    \/ BatchSendFail
    \/ BatchSkip
    \/ BatchSleep
    \/ BatchNoSleep

BatchSpec == BatchInit /\ [][BatchNext]_vars

\* The emitter is single-threaded and never blocks on its own: a step that
\* can be taken is taken
BatchFairSpec == BatchSpec /\ WF_vars(BatchNext)

-----------------------------------------------------------------------------
(* send_continuous_stream *)

RECURSIVE Gcd(_, _)
Gcd(a, b) == IF b = 0 THEN a ELSE Gcd(b, a % b)

RECURSIVE LcmUpTo(_)
LcmUpTo(n) == IF n <= 1 THEN 1 ELSE (LcmUpTo(n - 1) * n) \div Gcd(LcmUpTo(n - 1), n)

\* Clock ticks in a second: fine enough for events_per_batch /
\* events_per_second to be a whole number of ticks for every rate explored
TicksPerSecond == LcmUpTo(MaxEps)

\* Python truth value of duration_seconds: None and 0 are false
Truthy(opt) == opt # <<>> /\ opt[1] # 0

\* time.time() - start_time
Elapsed == clock - c_start_time

\* target_batch_duration = events_per_batch / events_per_second
TargetBatchDuration ==
    (events_per_batch * TicksPerSecond) \div events_per_second

\* sleep_time = max(0, target_batch_duration - batch_duration)
SleepTime(duration) == Max(0, TargetBatchDuration - duration)

\* if duration_seconds and (time.time() - start_time) >= duration_seconds
DurationReached ==
    Truthy(duration_seconds) /\ Elapsed >= duration_seconds[1] * TicksPerSecond

\* Positions inside "try: while True: ..."
LoopPcs == {"cycle", "fill", "send", "count", "pace", "sleep", "check"}

ContInit ==
    /\ pc = "cycle"
    /\ events_per_batch \in 0..MaxPerBatch
    /\ events_per_second \in 0..MaxEps
    /\ duration_seconds \in {<<>>} \cup {<<d>> : d \in 0..MaxDuration}
    /\ event_data_batch = <<>> /\ sent = <<>>
    /\ sent_count = 0 /\ batch_count = 0 /\ built = 0
    /\ clock = 0 /\ c_start_time = 0 /\ batch_start = 0
    /\ batch_duration = 0 /\ sleep_time = 0 /\ prev_start = 0
    /\ added = 0 /\ stop = <<>>
    /\ BatchIdle /\ StampIdle /\ FileIdle /\ HistIdle /\ LibIdle /\ MainIdle
    /\ DelayIdle

\* batch_start = time.time(); event_data_batch = producer.create_batch()
ContCycle ==
    /\ pc = "cycle"
    /\ batch_count < MaxCycles
    /\ prev_start' = batch_start
    /\ batch_start' = clock
    /\ event_data_batch' = <<>>
    /\ added' = 0
    /\ pc' = "fill"
    /\ UNCHANGED <<events_per_batch, sent, sent_count, batch_count, built,
                   batchVars, events_per_second, duration_seconds, clock,
                   c_start_time, batch_duration, sleep_time, stop, fileVars,
                   stampVars, histVars, libVars, mainVars, delayVars>>

\* one iteration of the for loop whose add succeeds
ContAddAccept ==
    /\ pc = "fill" /\ added < events_per_batch
    /\ event_data_batch' = Append(event_data_batch, [seq |-> built])
    /\ built' = built + 1
    /\ added' = added + 1
    /\ handed' = Append(handed, built)
    /\ UNCHANGED <<pc, events_per_batch, sent, sent_count, batch_count,
                   batchVars, events_per_second, duration_seconds, clock,
                   c_start_time, batch_start, batch_duration, sleep_time,
                   prev_start, stop, fileVars,
                   stampVars, failure, libVars, mainVars, delayVars>>

\* one iteration of the for loop whose add raises ValueError: break
ContAddReject ==
    /\ pc = "fill" /\ added < events_per_batch
    /\ rejects < MaxRejects
    /\ rejects' = rejects + 1
    /\ built' = built + 1
    /\ pc' = "send"
    /\ handed' = Append(handed, built)
    /\ UNCHANGED <<events_per_batch, event_data_batch, sent, sent_count,
                   batch_count, total_events, batch_events, record, carry,
                   contVars, fileVars,
                   stampVars, failure, libVars, mainVars, delayVars>>

\* the for loop ran events_per_batch times
ContFilled ==
    /\ pc = "fill" /\ added >= events_per_batch
    /\ pc' = "send"
    /\ UNCHANGED <<events_per_batch, event_data_batch, sent, sent_count,
                   batch_count, built, batchVars, contVars, fileVars,
                   stampVars, histVars, libVars, mainVars, delayVars>>

\* producer.send_batch(event_data_batch); building and sending took w ticks
ContSend ==
    /\ pc = "send"
    /\ sent' = Append(sent, event_data_batch)
    /\ \E w \in 0..MaxWork : clock' = clock + w
    /\ pc' = "count"
    /\ UNCHANGED <<events_per_batch, event_data_batch, sent_count,
                   batch_count, built, batchVars, events_per_second,
                   duration_seconds, c_start_time, batch_start,
                   batch_duration, sleep_time, prev_start, added, stop,
                   fileVars,
                   stampVars, histVars, libVars, mainVars, delayVars>>

\* producer.send_batch raises: the except KeyboardInterrupt clause does not
\* catch the exception, which leaves send_continuous_stream
ContSendFail ==
    /\ pc = "send"
    /\ failure' = <<[before |-> sent, unit |-> event_data_batch]>>
    /\ pc' = "raised"
    /\ UNCHANGED <<events_per_batch, event_data_batch, sent, sent_count,
                   batch_count, built, batchVars, contVars, fileVars,
                   stampVars, handed, libVars, mainVars, delayVars>>

\* sent_count += events_per_batch; batch_count += 1
ContCount ==
    /\ pc = "count"
    /\ sent_count' = sent_count + events_per_batch
    /\ batch_count' = batch_count + 1
    /\ pc' = "pace"
    /\ UNCHANGED <<events_per_batch, event_data_batch, sent, built,
                   batchVars, contVars, fileVars,
                   stampVars, histVars, libVars, mainVars, delayVars>>

\* mutant of ContPace: the sleep makes up for time lost in earlier cycles
ContPace_CatchUp ==
    /\ pc = "pace" /\ events_per_second # 0
    /\ batch_duration' = clock - batch_start
    /\ sleep_time' = Max(0, batch_count * TargetBatchDuration - Elapsed)
    /\ pc' = IF batch_count * TargetBatchDuration - Elapsed > 0
             THEN "sleep" ELSE "check"
    /\ UNCHANGED <<events_per_batch, event_data_batch, sent, sent_count,
                   batch_count, built, batchVars, events_per_second,
                   duration_seconds, clock, c_start_time, batch_start,
                   prev_start, added, stop, fileVars,
                   stampVars, histVars, libVars, mainVars, delayVars>>

\* batch_duration, target_batch_duration and sleep_time are computed
ContPace ==
    /\ pc = "pace" /\ events_per_second # 0
    /\ batch_duration' = clock - batch_start
    /\ sleep_time' = SleepTime(clock - batch_start)
    /\ pc' = IF SleepTime(clock - batch_start) > 0 THEN "sleep" ELSE "check"
    /\ UNCHANGED <<events_per_batch, event_data_batch, sent, sent_count,
                   batch_count, built, batchVars, events_per_second,
                   duration_seconds, clock, c_start_time, batch_start,
                   prev_start, added, stop, fileVars,
                   stampVars, histVars, libVars, mainVars, delayVars>>

\* events_per_batch / events_per_second raises ZeroDivisionError, which the
\* except KeyboardInterrupt clause does not catch
ContPaceError ==
    /\ pc = "pace" /\ events_per_second = 0
    /\ batch_duration' = clock - batch_start
    /\ stop' = <<[why |-> "error", at |-> pc, nsent |-> Len(sent)]>>
    /\ pc' = "raised"
    /\ UNCHANGED <<events_per_batch, event_data_batch, sent, sent_count,
                   batch_count, built, batchVars, events_per_second,
                   duration_seconds, clock, c_start_time, batch_start,
                   sleep_time, prev_start, added, fileVars,
                   stampVars, histVars, libVars, mainVars, delayVars>>

\* time.sleep(sleep_time)
ContSleep ==
    /\ pc = "sleep"
    /\ clock' = clock + sleep_time
    /\ pc' = "check"
    /\ UNCHANGED <<events_per_batch, event_data_batch, sent, sent_count,
                   batch_count, built, batchVars, events_per_second,
                   duration_seconds, c_start_time, batch_start,
                   batch_duration, sleep_time, prev_start, added, stop,
                   fileVars,
                   stampVars, histVars, libVars, mainVars, delayVars>>

\* duration check false: next iteration of while True
ContContinue ==
    /\ pc = "check" /\ ~DurationReached
    /\ pc' = "cycle"
    /\ UNCHANGED <<events_per_batch, event_data_batch, sent, sent_count,
                   batch_count, built, batchVars, contVars, fileVars,
                   stampVars, histVars, libVars, mainVars, delayVars>>

\* duration check true: break, then return sent_count
ContExpire ==
    /\ pc = "check" /\ DurationReached
    /\ stop' = <<[why |-> "duration", at |-> pc, nsent |-> Len(sent)]>>
    /\ pc' = "done"
    /\ UNCHANGED <<events_per_batch, event_data_batch, sent, sent_count,
                   batch_count, built, batchVars, events_per_second,
                   duration_seconds, clock, c_start_time, batch_start,
                   batch_duration, sleep_time, prev_start, added, fileVars,
                   stampVars, histVars, libVars, mainVars, delayVars>>

\* mutant of ContInterrupt: the handler sends the unit being assembled
ContInterrupt_Flush ==
    /\ pc \in LoopPcs
    /\ stop' = <<[why |-> "interrupt", at |-> pc, nsent |-> Len(sent)]>>
    /\ sent' = IF pc \in {"fill", "send"}
               THEN Append(sent, event_data_batch) ELSE sent
    /\ pc' = "done"
    /\ UNCHANGED <<events_per_batch, event_data_batch, sent_count,
                   batch_count, built, batchVars, events_per_second,
                   duration_seconds, clock, c_start_time, batch_start,
                   batch_duration, sleep_time, prev_start, added, fileVars,
                   stampVars, histVars, libVars, mainVars, delayVars>>

\* KeyboardInterrupt raised anywhere inside the try block: the except clause
\* prints and the function returns sent_count
ContInterrupt ==
    /\ pc \in LoopPcs
    /\ stop' = <<[why |-> "interrupt", at |-> pc, nsent |-> Len(sent)]>>
    /\ pc' = "done"
    /\ UNCHANGED <<events_per_batch, event_data_batch, sent, sent_count,
                   batch_count, built, batchVars, events_per_second,
                   duration_seconds, clock, c_start_time, batch_start,
                   batch_duration, sleep_time, prev_start, added, fileVars,
                   stampVars, histVars, libVars, mainVars, delayVars>>

ContNext ==
    \/ ContCycle
    \/ ContAddAccept
    \/ ContAddReject
    \/ ContFilled
    \/ ContSend
    \/ ContSendFail
    \/ ContCount
    \/ ContPace
    \/ ContPaceError
    \/ ContSleep
    \/ ContContinue
    \/ ContExpire
    \/ ContInterrupt

ContSpec == ContInit /\ [][ContNext]_vars

-----------------------------------------------------------------------------
(* generate_partitioned_files *)

\* Datetimes are whole seconds after Epoch, which lies two minutes before a
\* change of hour, day, month and year
Epoch == [year |-> 2023, month |-> 12, day |-> 31, hour |-> 23, minute |-> 58]

\* Seconds past the minute of the start and end times explored
SecondsOfMinute == {0, 30}

\* random.uniform(0, 59)
MaxJitter == 59

\* Values of the jitter explored
Jitters == {0, 30, MaxJitter}

IsLeap(y) == (y % 4 = 0 /\ y % 100 # 0) \/ y % 400 = 0

DaysInMonth(y, m) ==
    IF m = 2 THEN (IF IsLeap(y) THEN 29 ELSE 28)
    ELSE IF m \in {4, 6, 9, 11} THEN 30 ELSE 31

\* date + timedelta(days=n), the date as <<year, month, day>>
RECURSIVE AddDays(_, _)
AddDays(date, n) ==
    IF n = 0 THEN date
    ELSE IF date[3] < DaysInMonth(date[1], date[2])
         THEN AddDays(<<date[1], date[2], date[3] + 1>>, n - 1)
    ELSE IF date[2] < 12
         THEN AddDays(<<date[1], date[2] + 1, 1>>, n - 1)
    ELSE AddDays(<<date[1] + 1, 1, 1>>, n - 1)

\* The calendar fields of the datetime t seconds after Epoch
Calendar(t) ==
    LET minutes == Epoch.minute + (t \div 60)
        hours == Epoch.hour + (minutes \div 60)
        date == AddDays(<<Epoch.year, Epoch.month, Epoch.day>>, hours \div 24)
    IN  [year |-> date[1], month |-> date[2], day |-> date[3],
         hour |-> hours % 24, minute |-> minutes % 60, second |-> t % 60]

\* year=.../month=.../day=.../hour=.../minute=... of a datetime
PartitionKey(t) ==
    <<Calendar(t).year, Calendar(t).month, Calendar(t).day,
      Calendar(t).hour, Calendar(t).minute>>

\* mutant of FileCond: the minute at end_time is generated too
FileCond_Inclusive == current_time <= f_end_time

\* while current_time < end_time
FileCond == current_time < f_end_time

\* record_time = current_time + timedelta(seconds=random.uniform(0, 59))
RecordTime(jitter) == current_time + jitter

FileTimes == {m * 60 + sec : m \in 0..MaxMinute, sec \in SecondsOfMinute}

FileInit ==
    /\ pc = "while"
    /\ f_start_time \in FileTimes
    /\ f_end_time \in FileTimes
    /\ records_per_file \in 0..MaxRecords
    /\ files_per_minute \in 0..MaxFiles
    /\ current_time = f_start_time
    /\ partition_path = <<>> /\ file_no = 0 /\ records = <<>>
    /\ fs = <<>> /\ dirs = {} /\ total_files = 0 /\ total_records = 0
    /\ runs = 1
    /\ events_per_batch = 0 /\ event_data_batch = <<>> /\ sent = <<>>
    /\ sent_count = 0 /\ batch_count = 0 /\ built = 0
    /\ BatchIdle /\ StampIdle /\ ContIdle /\ HistIdle /\ LibIdle /\ MainIdle
    /\ DelayIdle

\* mutant of Mkdir: exist_ok is not honoured
Mkdir_Strict(ds, key, exist_ok) ==
    IF key \in ds
    THEN [ok |-> FALSE, dirs |-> ds]
    ELSE [ok |-> TRUE, dirs |-> ds \cup {key}]

\* Path.mkdir(parents=True, exist_ok=exist_ok) on the directories ds: an
\* existing directory raises FileExistsError unless exist_ok is set
Mkdir(ds, key, exist_ok) ==
    IF key \in ds
    THEN [ok |-> exist_ok, dirs |-> ds]
    ELSE [ok |-> TRUE, dirs |-> ds \cup {key}]

\* uuid.uuid4(): an id that no file written so far has
FreshId(files) ==
    LET used == {files[i].id : i \in DOMAIN files}
    IN  CHOOSE n \in (1..(Len(files) + 1)) \ used : TRUE

\* gzip.open(file_path, 'wt') and the writes: a file of that path is
\* replaced, any other file is left as it is
WriteFile(files, file) ==
    SelectSeq(files, LAMBDA f : f.dir # file.dir \/ f.id # file.id)
        \o <<file>>

\* loop test true: partition_path is computed and mkdir(exist_ok=True) run
FileEnterMinute ==
    /\ pc = "while" /\ FileCond
    /\ partition_path' = PartitionKey(current_time)
    /\ LET made == Mkdir(dirs, PartitionKey(current_time), TRUE)
       IN  /\ dirs' = made.dirs
           /\ IF made.ok
              THEN pc' = "files" /\ failure' = failure
              ELSE /\ pc' = "raised"
                   /\ failure' = <<[mkdir |-> PartitionKey(current_time)]>>
    /\ file_no' = 0
    /\ UNCHANGED <<events_per_batch, event_data_batch, sent, sent_count,
                   batch_count, built, batchVars, contVars, f_start_time,
                   f_end_time, records_per_file, files_per_minute,
                   current_time, records, fs, total_files, total_records,
                   stampVars, handed, libVars, mainVars, delayVars, runs>>

\* one iteration of "for _ in range(files_per_minute)": the records are
\* built, the file is written, the totals are raised
FileWrite ==
    /\ pc = "files" /\ file_no < files_per_minute
    /\ \E js \in [1..records_per_file -> Jitters] :
           records' = [i \in 1..records_per_file |->
                          [ts |-> RecordTime(js[i]), seq |-> built + i - 1]]
    /\ built' = built + Max(0, records_per_file)
    /\ fs' = WriteFile(fs, [dir |-> partition_path, id |-> FreshId(fs),
                            lines |-> Len(records'), run |-> runs])
    /\ total_files' = total_files + 1
    /\ total_records' = total_records + records_per_file
    /\ file_no' = file_no + 1
    /\ handed' = handed \o [i \in 1..Len(records') |-> records'[i].seq]
    /\ UNCHANGED <<pc, events_per_batch, event_data_batch, sent, sent_count,
                   batch_count, batchVars, contVars, f_start_time,
                   f_end_time, records_per_file, files_per_minute,
                   current_time, partition_path, dirs,
                   stampVars, failure, libVars, mainVars, delayVars, runs>>

\* mutant of FileAdvance: a minute without files does not move the cursor
FileAdvance_IfWritten ==
    /\ pc = "files" /\ file_no >= files_per_minute
    /\ current_time' = IF files_per_minute > 0 THEN current_time + 60
                       ELSE current_time
    /\ pc' = "while"
    /\ UNCHANGED <<events_per_batch, event_data_batch, sent, sent_count,
                   batch_count, built, batchVars, contVars, f_start_time,
                   f_end_time, records_per_file, files_per_minute,
                   partition_path, file_no, records, fs, dirs, total_files,
                   total_records,
                   stampVars, histVars, libVars, mainVars, delayVars, runs>>

\* the for loop is over: current_time += timedelta(minutes=1)
FileAdvance ==
    /\ pc = "files" /\ file_no >= files_per_minute
    /\ current_time' = current_time + 60
    /\ pc' = "while"
    /\ UNCHANGED <<events_per_batch, event_data_batch, sent, sent_count,
                   batch_count, built, batchVars, contVars, f_start_time,
                   f_end_time, records_per_file, files_per_minute,
                   partition_path, file_no, records, fs, dirs, total_files,
                   total_records,
                   stampVars, histVars, libVars, mainVars, delayVars, runs>>

\* loop test false: return total_files, total_records
FileReturn ==
    /\ pc = "while" /\ ~FileCond
    /\ pc' = "done"
    /\ UNCHANGED <<events_per_batch, event_data_batch, sent, sent_count,
                   batch_count, built, batchVars, contVars, fileVars,
                   stampVars, histVars, libVars, mainVars, delayVars>>

FileNext ==
    \/ FileEnterMinute
    \/ FileWrite
    \/ FileAdvance
    \/ FileReturn

FileSpec == FileInit /\ [][FileNext]_vars

\* Invocations of the generator explored on the same output directory
MaxRuns == 2

\* The generator is invoked again with the same arguments on the output
\* directory the earlier run left: the locals start afresh, the
\* directories and files on disk stay
FileRerun ==
    /\ pc = "done" /\ runs < MaxRuns
    /\ runs' = runs + 1
    /\ current_time' = f_start_time
    /\ total_files' = 0 /\ total_records' = 0
    /\ partition_path' = <<>> /\ file_no' = 0 /\ records' = <<>>
    /\ pc' = "while"
    /\ UNCHANGED <<events_per_batch, event_data_batch, sent, sent_count,
                   batch_count, built, batchVars, contVars, f_start_time,
                   f_end_time, records_per_file, files_per_minute, fs, dirs,
                   stampVars, histVars, libVars, mainVars, delayVars>>

FileRerunSpec == FileInit /\ [][FileNext \/ FileRerun]_vars

\* The generator is single-threaded and never blocks on its own: a step
\* that can be taken is taken
FileFairSpec == FileSpec /\ WF_vars(FileNext)

-----------------------------------------------------------------------------
(* One run of any of the three emitters *)

Init == BatchInit \/ ContInit \/ FileInit

Next == BatchNext \/ ContNext \/ FileNext

Spec == Init /\ [][Next]_vars

-----------------------------------------------------------------------------
(* The partition path, the file format, the record builder and the field   *)
(* generators, each called on its own                                      *)

\* str(n) for n >= 0, as its decimal digits
RECURSIVE Digits(_)
Digits(n) == IF n < 10 THEN <<n>> ELSE Digits(n \div 10) \o <<n % 10>>

\* f"{n:02d}" for n >= 0: padded with zeros to two digits at least
Pad2(n) == IF n < 10 THEN <<0, n>> ELSE Digits(n)

\* partition_path below output_dir, for a datetime given by its calendar
\* fields: f"year={t.year}" / f"month={t.month:02d}" / f"day={t.day:02d}" /
\* f"hour={t.hour:02d}" / f"minute={t.minute:02d}"
PartitionPath(t) ==
    <<[name |-> "year", text |-> Digits(t.year)],
      [name |-> "month", text |-> Pad2(t.month)],
      [name |-> "day", text |-> Pad2(t.day)],
      [name |-> "hour", text |-> Pad2(t.hour)],
      [name |-> "minute", text |-> Pad2(t.minute)]>>

\* The datetimes explored: datetime accepts the years 1 to 9999
PathTimes ==
    [year : {999, 2023, 2024}, month : {2, 12}, day : {1, 28},
     hour : {0, 23}, minute : {0, 59}, second : {0, 30}]

\* Characters of the text inside a record: a letter, a line feed, a
\* backslash
Chars == {"n", "LF", "BS"}

\* Largest number of characters in a record explored
MaxChars == 2

RecordTexts == UNION {[1..n -> Chars] : n \in 0..MaxChars}

RecordLists == UNION {[1..n -> RecordTexts] : n \in 0..MaxRecords}

\* The JSON string escapes of json.dumps: no line feed is left in the text
RECURSIVE Escape(_)
Escape(cs) ==
    IF cs = <<>> THEN <<>>
    ELSE (IF Head(cs) = "LF" THEN <<"BS", "n">>
          ELSE IF Head(cs) = "BS" THEN <<"BS", "BS">>
          ELSE <<Head(cs)>>) \o Escape(Tail(cs))

\* mutant of Dumps: the text of the record is written as it is
Dumps_Raw(rec) == <<"{">> \o rec \o <<"}">>

\* json.dumps(record, separators=(',', ':'))
Dumps(rec) == <<"{">> \o Escape(rec) \o <<"}">>

\* for record in records: f.write(json.dumps(record, ...) + '\n')
RECURSIVE WriteLines(_)
WriteLines(recs) ==
    IF recs = <<>> THEN <<>>
    ELSE Dumps(Head(recs)) \o <<"LF">> \o WriteLines(Tail(recs))

\* The reader of a written file: the text is cut after every line feed
RECURSIVE SplitLines(_, _)
SplitLines(text, line) ==
    IF text = <<>> THEN (IF line = <<>> THEN <<>> ELSE <<line>>)
    ELSE IF Head(text) = "LF" THEN <<line>> \o SplitLines(Tail(text), <<>>)
    ELSE SplitLines(Tail(text), Append(line, Head(text)))

\* The reader of a written file: the JSON string escapes are undone
RECURSIVE Unescape(_)
Unescape(cs) ==
    IF cs = <<>> THEN <<>>
    ELSE IF Head(cs) = "BS" /\ Len(cs) >= 2
         THEN (IF cs[2] = "n" THEN <<"LF">> ELSE <<cs[2]>>)
              \o Unescape(Tail(Tail(cs)))
    ELSE <<Head(cs)>> \o Unescape(Tail(cs))

\* The reader of a written file: json.loads of one line
Loads(line) ==
    IF Len(line) >= 2 /\ Head(line) = "{" /\ line[Len(line)] = "}"
    THEN <<Unescape(SubSeq(line, 2, Len(line) - 1))>>
    ELSE <<>>

\* The reader of a written file: every line parsed, in order
ReadBack(text) ==
    [i \in 1..Len(SplitLines(text, <<>>)) |-> Loads(SplitLines(text, <<>>)[i])]

\* The keys of the dict TEMPLATE
TemplateKeys ==
    {"category", "container", "containerId", "containerImage",
     "containerImageId", "file", "host", "namespace", "pod", "podIp",
     "podOwner", "resource", "resourceGroup", "severity", "source",
     "subscription", "type"}

\* The dict TEMPLATE: every key with the value written in the source
TEMPLATE == [k \in TemplateKeys |-> [from |-> "template", key |-> k, draw |-> 0]]

\* The keys of the dict returned by generate_fake_data
FakeDataKeys ==
    {"apiType", "authorizationMode", "backendGui", "client", "contentClient",
     "dataClassification", "documentContentLength", "documentDefinition",
     "documentName", "externalSource", "generationEngine", "infondsVersion",
     "locale", "logType", "mediaType", "pageConfigurationCode",
     "serialNumber", "sourceAction", "sourceCategory",
     "templateAuthorizationDate", "templateCode", "templateName",
     "templateVersion", "templateVersionDate", "timeTotal", "traceId",
     "traceParentId", "uploadToDocRepository", "timeDocCreator",
     "identifier", "timeCalculation", "timeGC"}

\* The keys of TEMPLATE that generate_log_record assigns a random value to
RandomKeys == {"namespace", "pod", "severity", "podIp", "host"}

\* generate_fake_data(timestamp): a dict literal with a fixed set of keys,
\* its values drawn at random
GenerateFakeData(ts, n) ==
    [k \in FakeDataKeys |-> [from |-> "random", key |-> k, draw |-> n]]

\* The dict tpl after the assignments of generate_log_record
Assigned(tpl, ts, body) ==
    [k \in DOMAIN tpl \cup {"timestamp", "data"} \cup RandomKeys |->
        IF k = "timestamp"
        THEN [from |-> "strftime", key |-> k, draw |-> ts]
        ELSE IF k \in RandomKeys
        THEN [from |-> "random", key |-> k, draw |-> body]
        ELSE IF k = "data" THEN GenerateFakeData(ts, body)
        ELSE tpl[k]]

\* mutant of GenerateLogRecord: record = TEMPLATE, without the copy
GenerateLogRecord_Alias(tpl, ts, body) ==
    [record |-> Assigned(tpl, ts, body), template |-> Assigned(tpl, ts, body)]

\* generate_log_record(timestamp): record = TEMPLATE.copy(), then the
\* assignments to record; returns the record and leaves TEMPLATE as tpl
GenerateLogRecord(tpl, ts, body) ==
    [record |-> Assigned(tpl, ts, body), template |-> tpl]

\* OPTIONAL_FIELDS of fake-data-generator.py
OPTIONAL_FIELDS == <<"userId", "errorCode", "requestId", "sessionId", "region">>

OptionalNames == {OPTIONAL_FIELDS[i] : i \in 1..Len(OPTIONAL_FIELDS)}

\* The keys every log_entry of generate_logs starts with
BaseKeys == {"timestamp", "level", "message", "service"}

\* The names generate_field_value is called with on its own
FieldNames == OptionalNames \cup BaseKeys \cup {"", "userid"}

\* mutant of GenerateFieldValue: the branch for region is missing
GenerateFieldValue_NoRegion(field_name, n) ==
    IF field_name \in {"userId", "errorCode", "requestId", "sessionId"}
    THEN <<[from |-> "random", key |-> field_name, draw |-> n]>>
    ELSE <<>>

\* generate_field_value(field_name): <<>> is None
GenerateFieldValue(field_name, n) ==
    IF field_name \in {"userId", "errorCode", "requestId", "sessionId",
                       "region"}
    THEN <<[from |-> "random", key |-> field_name, draw |-> n]>>
    ELSE <<>>

\* random.sample(OPTIONAL_FIELDS, num_opts): num_opts distinct positions of
\* the list, in any order
Samples(num_opts) ==
    {[i \in 1..num_opts |-> OPTIONAL_FIELDS[ix[i]]] :
        ix \in {f \in [1..num_opts -> 1..Len(OPTIONAL_FIELDS)] :
                   \A i \in 1..num_opts : \A j \in 1..num_opts :
                       i # j => f[i] # f[j]}}

\* for field in sample: log_entry[field] = generate_field_value(field)
RECURSIVE AssignFields(_, _, _)
AssignFields(log_entry, sample, n) ==
    IF sample = <<>> THEN log_entry
    ELSE AssignFields(
             [k \in DOMAIN log_entry \cup {Head(sample)} |->
                 IF k = Head(sample) THEN GenerateFieldValue(k, n)
                 ELSE log_entry[k]],
             Tail(sample), n)

\* One entry of generate_logs
LogEntry(sample, n) ==
    AssignFields(
        [k \in BaseKeys |-> <<[from |-> "base", key |-> k, draw |-> n]>>],
        sample, n)

StreamIdle ==
    /\ events_per_batch = 0 /\ event_data_batch = <<>> /\ sent = <<>>
    /\ sent_count = 0 /\ batch_count = 0 /\ built = 0

LibInit ==
    /\ pc = "lib"
    /\ call = <<>> /\ result = <<>>
    /\ template = TEMPLATE
    /\ StreamIdle /\ BatchIdle /\ StampIdle /\ ContIdle /\ FileIdle
    /\ HistIdle /\ MainIdle
    /\ DelayIdle

CallPartitionPath ==
    /\ pc = "lib" /\ call = <<>>
    /\ \E t \in PathTimes :
           /\ call' = <<[fn |-> "partition_path", args |-> t]>>
           /\ result' = <<PartitionPath(t)>>
    /\ UNCHANGED <<streamVars, batchVars, contVars, fileVars, stampVars,
                   histVars, template, mainVars, delayVars>>

CallWriteLines ==
    /\ pc = "lib" /\ call = <<>>
    /\ \E recs \in RecordLists :
           /\ call' = <<[fn |-> "write_lines", args |-> recs]>>
           /\ result' = <<WriteLines(recs)>>
    /\ UNCHANGED <<streamVars, batchVars, contVars, fileVars, stampVars,
                   histVars, template, mainVars, delayVars>>

\* generate_log_record is called any number of times
CallGenerateLogRecord ==
    /\ pc = "lib"
    /\ IF call = <<>> THEN TRUE ELSE call[1].fn = "generate_log_record"
    /\ \E ts \in 0..1, body \in 1..NumBodies :
           /\ call' = <<[fn |-> "generate_log_record", args |-> ts]>>
           /\ result' = <<GenerateLogRecord(template, ts, body).record>>
           /\ template' = GenerateLogRecord(template, ts, body).template
    /\ built < MaxTotal
    /\ built' = built + 1
    /\ UNCHANGED <<pc, events_per_batch, event_data_batch, sent, sent_count,
                   batch_count, batchVars, contVars, fileVars, stampVars,
                   histVars, mainVars, delayVars>>

CallGenerateFieldValue ==
    /\ pc = "lib" /\ call = <<>>
    /\ \E field_name \in FieldNames, n \in 1..NumBodies :
           /\ call' = <<[fn |-> "generate_field_value", args |-> field_name]>>
           /\ result' = <<GenerateFieldValue(field_name, n)>>
    /\ UNCHANGED <<streamVars, batchVars, contVars, fileVars, stampVars,
                   histVars, template, mainVars, delayVars>>

CallLogEntry ==
    /\ pc = "lib" /\ call = <<>>
    /\ \E num_opts \in 0..Len(OPTIONAL_FIELDS), n \in 1..NumBodies :
           \E sample \in Samples(num_opts) :
               /\ call' = <<[fn |-> "log_entry", args |-> sample]>>
               /\ result' = <<LogEntry(sample, n)>>
    /\ UNCHANGED <<streamVars, batchVars, contVars, fileVars, stampVars,
                   histVars, template, mainVars, delayVars>>

LibNext ==
    \/ CallPartitionPath
    \/ CallWriteLines
    \/ CallGenerateLogRecord
    \/ CallGenerateFieldValue
    \/ CallLogEntry

LibSpec == LibInit /\ [][LibNext]_vars

-----------------------------------------------------------------------------
(* main() of send_logs_to_eventhub.py, generate_partitioned_logs.py and    *)
(* fake-data-generator.py                                                  *)

\* events_per_batch=min(config["events_per_batch"], 10)
ContinuousBatchCap == 10

\* mutant of Min: the first number whatever the second is
Min_First(a, b) == a

Min(a, b) == IF a <= b THEN a ELSE b

\* A timestamp string of the configuration: absent, well-formed or malformed
TimeStrings == {"", "ok", "bad"}

\* auth_method: absent, two of the supported names, and an unsupported name
AuthMethods == {"", "default", "client_secret", "bogus"}

\* A configuration whose destination is a connection string and nothing else
PlainDestination(c) ==
    /\ c.connection_string /\ ~c.namespace /\ ~c.use_managed_identity
    /\ c.auth_method = "" /\ ~c.secrets

\* The merged configurations of send_logs_to_eventhub.py explored; secrets
\* stands for tenant_id, client_id and client_secret all being given.  The
\* options of the mode that is not selected keep one value, and so do the
\* options of the run when the destination is not the plain one
SendLogsConfigs ==
    {c \in [program : {"send_logs"}, connection_string : BOOLEAN,
            namespace : BOOLEAN, use_managed_identity : BOOLEAN,
            auth_method : AuthMethods, secrets : BOOLEAN,
            mode : {"batch", "continuous", "other"},
            start : TimeStrings, end : TimeStrings,
            duration_hours : {0}, events_per_batch : {1, 11},
            delay_between_batches : {0, 1},
            total_events : {<<1>>}, events_per_second : {0, 1},
            duration_seconds : {<<1>>, <<2>>}] :
        /\ c.secrets => c.auth_method = "client_secret"
        /\ c.mode = "batch" =>
               c.events_per_second = 1 /\ c.duration_seconds = <<1>>
        /\ c.mode # "batch" => c.delay_between_batches = 0
        /\ ~PlainDestination(c) =>
               /\ c.mode = "batch" /\ c.start = "" /\ c.end = ""
               /\ c.events_per_batch = 1 /\ c.delay_between_batches = 0}

\* The command lines of generate_partitioned_logs.py explored
PartitionedConfigs ==
    [program : {"partitioned"}, start : TimeStrings, end : TimeStrings,
     duration_hours : {0}, records_per_file : {1}, files_per_minute : {1}]

\* The configurations of fake-data-generator.py explored
FakeConfigs ==
    [program : {"fake"}, start_date : {"ok", "bad"},
     days : 0..MaxFiles, entries : 0..MaxRecords]

\* not config["connection_string"] and not (config["namespace"] and
\* (config["use_managed_identity"] or config["auth_method"]))
DestinationMissing(c) ==
    /\ ~c.connection_string
    /\ ~(c.namespace /\ (c.use_managed_identity \/ c.auth_method # ""))

\* if use_managed_identity and not auth_method: auth_method = "default"
EffectiveAuth(c) ==
    IF c.use_managed_identity /\ c.auth_method = "" THEN "default"
    ELSE c.auth_method

\* create_producer_client raises ValueError: the credential cannot be built,
\* or there is neither an auth method with a namespace nor a connection
\* string
ProducerError(c) ==
    IF EffectiveAuth(c) # "" /\ c.namespace
    THEN \/ EffectiveAuth(c) = "client_secret" /\ ~c.secrets
         \/ EffectiveAuth(c) = "bogus"
    ELSE ~c.connection_string

\* The datetimes a well-formed --end and --start stand for, and
\* datetime.now(), in seconds
ParsedEnd == 4

ParsedStart == 3

WallNow == 5

SecondsPerHour == 3600

MainInit ==
    /\ config \in SendLogsConfigs \cup PartitionedConfigs \cup FakeConfigs
    /\ pc = IF config.program = "send_logs" THEN "m_validate"
            ELSE IF config.program = "partitioned" THEN "p_parse_end"
            ELSE "g_parse"
    /\ producer = "none" /\ exit_status = "" /\ closes = 0 /\ ran = {}
    /\ StreamIdle /\ BatchIdle /\ StampIdle /\ ContIdle /\ FileIdle
    /\ HistIdle /\ LibIdle /\ DelayIdle

\* Validate connection parameters: parser.error exits the program
MainValidate ==
    /\ pc = "m_validate"
    /\ IF DestinationMissing(config)
       THEN exit_status' = "usage_error" /\ pc' = "exit"
       ELSE exit_status' = exit_status /\ pc' = "m_connect"
    /\ UNCHANGED <<events_per_batch, event_data_batch, sent, sent_count,
                   batch_count, built, batchVars, contVars, fileVars,
                   stampVars, histVars, libVars, config, producer, delayVars, closes,
                   ran>>

\* producer = create_producer_client(...), before the try block
MainConnect ==
    /\ pc = "m_connect"
    /\ IF ProducerError(config)
       THEN exit_status' = "ValueError" /\ producer' = producer /\ pc' = "exit"
       ELSE exit_status' = exit_status /\ producer' = "open" /\ pc' = "m_try"
    /\ UNCHANGED <<events_per_batch, event_data_batch, sent, sent_count,
                   batch_count, built, batchVars, contVars, fileVars,
                   stampVars, histVars, libVars, config, delayVars, closes,
                   ran>>

\* batch mode: end_time is parsed with datetime.fromisoformat or defaults to
\* now; a ValueError leaves the try block through finally: producer.close()
MainParseEnd ==
    /\ pc = "m_try" /\ config.mode = "batch"
    /\ IF config.end = "bad"
       THEN /\ exit_status' = "ValueError" /\ producer' = "closed"
            /\ closes' = closes + 1
            /\ pc' = "exit" /\ end_time' = end_time
       ELSE /\ exit_status' = exit_status /\ producer' = producer
            /\ closes' = closes
            /\ pc' = "m_parse_start"
            /\ end_time' = OneSecond * (IF config.end = "" THEN WallNow
                                        ELSE ParsedEnd)
    /\ UNCHANGED <<events_per_batch, event_data_batch, sent, sent_count,
                   batch_count, built, batchVars, contVars, fileVars,
                   start_time, realtime_mode, total_events_arg, now,
                   histVars, libVars, config, delayVars, ran>>

\* batch mode: start_time is parsed or defaults to end_time - duration_hours
MainParseStart ==
    /\ pc = "m_parse_start"
    /\ IF config.start = "bad"
       THEN /\ exit_status' = "ValueError" /\ producer' = "closed"
            /\ closes' = closes + 1
            /\ pc' = "exit" /\ start_time' = start_time
       ELSE /\ exit_status' = exit_status /\ producer' = producer
            /\ closes' = closes
            /\ pc' = "m_call"
            /\ start_time' =
                   IF config.start = ""
                   THEN end_time - config.duration_hours * SecondsPerHour * OneSecond
                   ELSE OneSecond * ParsedStart
    /\ UNCHANGED <<events_per_batch, event_data_batch, sent, sent_count,
                   batch_count, built, batchVars, contVars, fileVars,
                   end_time, realtime_mode, total_events_arg, now,
                   histVars, libVars, config, delayVars, ran>>

\* send_events_to_eventhub(producer, start_time, end_time, events_per_batch,
\* total_events, delay_between_batches) is entered
MainCallBatch ==
    /\ pc = "m_call"
    /\ events_per_batch' = config.events_per_batch
    /\ total_events_arg' = config.total_events
    /\ total_events' = ResolveTotal(config.total_events, start_time, end_time)
    /\ now' = OneSecond * WallNow
    /\ delay_between_batches' = config.delay_between_batches
    /\ ran' = ran \cup {"batch"}
    /\ pc' = "outer"
    /\ UNCHANGED <<event_data_batch, sent, sent_count, batch_count, built,
                   batch_events, record, rejects, carry, contVars, fileVars,
                   start_time, end_time, realtime_mode, histVars, libVars,
                   config, producer, exit_status, closes, pauses>>

\* any other mode: send_continuous_stream(producer, events_per_second,
\* duration_seconds, min(events_per_batch, 10)) is entered; start and end
\* are not looked at
MainCallContinuous ==
    /\ pc = "m_try" /\ config.mode # "batch"
    /\ events_per_second' = config.events_per_second
    /\ duration_seconds' = config.duration_seconds
    /\ events_per_batch' = Min(config.events_per_batch, ContinuousBatchCap)
    /\ ran' = ran \cup {"continuous"}
    /\ pc' = "cycle"
    /\ UNCHANGED <<event_data_batch, sent, sent_count, batch_count, built,
                   batchVars, clock, c_start_time, batch_start,
                   batch_duration, sleep_time, prev_start, added, stop,
                   fileVars, stampVars, histVars, libVars, config, producer,
                   exit_status, closes, delayVars>>

\* Positions of main inside the try block in batch mode, those of
\* send_events_to_eventhub included
BatchTryPcs ==
    {"m_try", "m_parse_start", "m_call", "outer", "inner", "add", "flush",
     "delay"}

\* KeyboardInterrupt in batch mode: nothing in send_events_to_eventhub or in
\* the try block of main catches it, so it leaves through the finally clause
MainInterrupt ==
    /\ config.program = "send_logs" /\ config.mode = "batch"
    /\ pc \in BatchTryPcs
    /\ failure' = <<[interrupt |-> pc]>>
    /\ pc' = "raised"
    /\ UNCHANGED <<events_per_batch, event_data_batch, sent, sent_count,
                   batch_count, built, batchVars, contVars, fileVars,
                   stampVars, handed, libVars, mainVars, delayVars>>

\* mutant of MainFinally: producer.close() follows the try block instead of
\* being its finally clause, so an exception passes it by
MainFinally_AfterTry ==
    /\ pc \in {"done", "raised"} /\ config.program = "send_logs"
    /\ producer' = IF pc = "done" THEN "closed" ELSE producer
    /\ closes' = IF pc = "done" THEN closes + 1 ELSE closes
    /\ exit_status' = IF pc = "done" THEN "ok" ELSE "exception"
    /\ pc' = "exit"
    /\ UNCHANGED <<events_per_batch, event_data_batch, sent, sent_count,
                   batch_count, built, batchVars, contVars, fileVars,
                   stampVars, histVars, libVars, config, delayVars, ran>>

\* finally: producer.close(), after the emitter returned or raised
MainFinally ==
    /\ pc \in {"done", "raised"} /\ config.program = "send_logs"
    /\ producer' = "closed"
    /\ closes' = closes + 1
    /\ exit_status' = IF pc = "done" THEN "ok" ELSE "exception"
    /\ pc' = "exit"
    /\ UNCHANGED <<events_per_batch, event_data_batch, sent, sent_count,
                   batch_count, built, batchVars, contVars, fileVars,
                   stampVars, histVars, libVars, config, delayVars, ran>>

\* generate_partitioned_logs.py: end_time is parsed or defaults to now; a
\* ValueError ends the program
PartParseEnd ==
    /\ pc = "p_parse_end"
    /\ IF config.end = "bad"
       THEN exit_status' = "ValueError" /\ pc' = "exit"
            /\ f_end_time' = f_end_time
       ELSE exit_status' = exit_status /\ pc' = "p_parse_start"
            /\ f_end_time' = 60 * (IF config.end = "" THEN WallNow
                                   ELSE ParsedEnd)
    /\ UNCHANGED <<events_per_batch, event_data_batch, sent, sent_count,
                   batch_count, built, batchVars, contVars, f_start_time,
                   records_per_file, files_per_minute, current_time,
                   partition_path, file_no, records, fs, dirs, total_files,
                   total_records, stampVars, histVars, libVars, config,
                   producer, delayVars, runs, closes, ran>>

\* generate_partitioned_logs.py: start_time is parsed or defaults to
\* end_time - duration_hours
PartParseStart ==
    /\ pc = "p_parse_start"
    /\ IF config.start = "bad"
       THEN exit_status' = "ValueError" /\ pc' = "exit"
            /\ f_start_time' = f_start_time
       ELSE exit_status' = exit_status /\ pc' = "p_call"
            /\ f_start_time' =
                   IF config.start = ""
                   THEN f_end_time - config.duration_hours * SecondsPerHour
                   ELSE 60 * ParsedStart
    /\ UNCHANGED <<events_per_batch, event_data_batch, sent, sent_count,
                   batch_count, built, batchVars, contVars, f_end_time,
                   records_per_file, files_per_minute, current_time,
                   partition_path, file_no, records, fs, dirs, total_files,
                   total_records, stampVars, histVars, libVars, config,
                   producer, delayVars, runs, closes, ran>>

\* generate_partitioned_files(output_dir, start_time, end_time,
\* records_per_file, files_per_minute) is entered
PartCall ==
    /\ pc = "p_call"
    /\ records_per_file' = config.records_per_file
    /\ files_per_minute' = config.files_per_minute
    /\ current_time' = f_start_time
    /\ runs' = 1
    /\ pc' = "while"
    /\ UNCHANGED <<events_per_batch, event_data_batch, sent, sent_count,
                   batch_count, built, batchVars, contVars, f_start_time,
                   f_end_time, partition_path, file_no, records, fs, dirs,
                   total_files, total_records, stampVars, histVars, libVars,
                   mainVars, delayVars>>

\* generate_partitioned_files returned: the program ends
PartExit ==
    /\ pc = "done" /\ config.program = "partitioned"
    /\ exit_status' = "ok"
    /\ pc' = "exit"
    /\ UNCHANGED <<events_per_batch, event_data_batch, sent, sent_count,
                   batch_count, built, batchVars, contVars, fileVars,
                   stampVars, histVars, libVars, config, producer, delayVars, closes,
                   ran>>

\* fake-data-generator.py: datetime.strptime(config["start_date"],
\* "%Y-%m-%d"); on ValueError the error is printed and main returns
FakeParse ==
    /\ pc = "g_parse"
    /\ IF config.start_date = "bad"
       THEN exit_status' = "invalid_date" /\ pc' = "exit"
       ELSE exit_status' = exit_status /\ pc' = "g_call"
    /\ UNCHANGED <<events_per_batch, event_data_batch, sent, sent_count,
                   batch_count, built, batchVars, contVars, fileVars,
                   stampVars, histVars, libVars, config, producer, delayVars, closes,
                   ran>>

\* generate_logs(days, entries, base_date, output_dir): the output directory
\* is made and one file of entries lines is written for each day
FakeGenerate ==
    /\ pc = "g_call"
    /\ dirs' = Mkdir(dirs, <<"output_dir">>, TRUE).dirs
    /\ fs' = fs \o [d \in 1..config.days |->
                       [dir |-> <<"output_dir">>, lines |-> config.entries]]
    /\ built' = built + config.days * config.entries
    /\ handed' = handed \o [i \in 1..(config.days * config.entries) |->
                               built + i - 1]
    /\ exit_status' = "ok"
    /\ pc' = "exit"
    /\ UNCHANGED <<events_per_batch, event_data_batch, sent, sent_count,
                   batch_count, batchVars, contVars, f_start_time,
                   f_end_time, records_per_file, files_per_minute,
                   current_time, partition_path, file_no, records,
                   total_files, total_records, stampVars, failure, libVars,
                   config, producer, delayVars, runs, closes, ran>>

MainNext ==
    \/ MainValidate
    \/ MainConnect
    \/ MainParseEnd
    \/ MainParseStart
    \/ MainCallBatch
    \/ MainCallContinuous
    \/ MainInterrupt
    \/ MainFinally
    \/ PartParseEnd
    \/ PartParseStart
    \/ PartCall
    \/ PartExit
    \/ FakeParse
    \/ FakeGenerate

\* A program from its start to its end, the emitter it calls included
MainSpec == MainInit /\ [][MainNext \/ BatchNext \/ ContNext \/ FileNext]_vars

-----------------------------------------------------------------------------
(* Properties of the three programs *)

\* The configuration has a malformed timestamp string or, for
\* send_logs_to_eventhub.py, neither a connection string nor a namespace
\* with an auth method or managed identity
ConfigError ==
    IF config.program = "send_logs"
    THEN \/ config.start = "bad" \/ config.end = "bad"
         \/ /\ ~config.connection_string
            /\ ~(config.namespace /\
                 (config.use_managed_identity \/ config.auth_method # ""))
    ELSE IF config.program = "partitioned"
    THEN config.start = "bad" \/ config.end = "bad"
    ELSE config.start_date = "bad"

NothingEmitted ==
    /\ built = 0 /\ handed = <<>> /\ sent = <<>> /\ fs = <<>> /\ dirs = {}

\* C18: with a malformed start or end timestamp string, or without the
\* destination parameters, the program stops before any record is
\* generated, any batch is sent or any file is written, and does not end
\* as a successful run; an invalid start date of fake-data-generator
\* leaves no output file.
C18_ConfigErrorsFailFast ==
    ConfigError =>
        /\ NothingEmitted
        /\ pc = "exit" => exit_status # "ok"

-----------------------------------------------------------------------------
(* Properties of the partition path, the file format, the record builder   *)
(* and the field generators                                                *)

Called(fn) == call # <<>> /\ call[1].fn = fn

\* The number a string of decimal digits denotes
RECURSIVE Value(_)
Value(ds) ==
    IF ds = <<>> THEN 0
    ELSE Value(SubSeq(ds, 1, Len(ds) - 1)) * 10 + ds[Len(ds)]

SameMinute(t, u) ==
    /\ t.year = u.year /\ t.month = u.month /\ t.day = u.day
    /\ t.hour = u.hour /\ t.minute = u.minute

\* C15: for every timestamp the partition path has the five segments year,
\* month, day, hour, minute, in that order, whose numbers are the calendar
\* fields of the timestamp, the year written with 4 digits and the others
\* with 2, and every timestamp of the same minute has the same path.
C15_PartitionPath ==
    Called("partition_path") =>
        LET t == call[1].args
            p == result[1]
        IN  /\ Len(p) = 5
            /\ [i \in 1..5 |-> p[i].name] =
                   <<"year", "month", "day", "hour", "minute">>
            /\ [i \in 1..5 |-> Value(p[i].text)] =
                   <<t.year, t.month, t.day, t.hour, t.minute>>
            /\ Len(p[1].text) = 4
            /\ \A i \in 2..5 : Len(p[i].text) = 2
            /\ \A u \in PathTimes : SameMinute(t, u) => PartitionPath(u) = p

\* C17: reading a written file back line by line gives exactly the records
\* assembled for it, as many as were written and in the same order, one
\* record per line.
C17_RoundTrip ==
    Called("write_lines") =>
        /\ ReadBack(result[1]) =
               [i \in 1..Len(call[1].args) |-> <<call[1].args[i]>>]
        /\ Len(SplitLines(result[1], <<>>)) = Len(call[1].args)

\* Two different records written, the first with a line feed and a
\* backslash in its text
C17_Witness ==
    /\ Called("write_lines")
    /\ call[1].args = <<<<"LF", "BS">>, <<"n">>>>
    /\ Len(ReadBack(result[1])) = 2
    /\ ReadBack(result[1])[1] = <<<<"LF", "BS">>>>

\* C19: every record generate_log_record returns has exactly the keys of
\* TEMPLATE plus timestamp and data; every key other than namespace, pod,
\* severity, podIp and host has the value TEMPLATE gives it; and TEMPLATE
\* is the same after any number of calls.
C19_RecordFrame ==
    /\ template = TEMPLATE
    /\ Called("generate_log_record") =>
           /\ DOMAIN result[1] = TemplateKeys \cup {"timestamp", "data"}
           /\ \A k \in TemplateKeys \ {"namespace", "pod", "severity",
                                        "podIp", "host"} :
                  result[1][k] = TEMPLATE[k]

\* The record returned by a second or later call
C19_Witness ==
    /\ Called("generate_log_record") /\ built >= 2
    /\ template = TEMPLATE
    /\ result[1]["namespace"] # TEMPLATE["namespace"]
    /\ result[1]["container"] = TEMPLATE["container"]
    /\ "timestamp" \in DOMAIN result[1]

\* C20: the data object of every record has the same full set of keys
\* (generate_fake_data); every entry of generate_logs carries, beside its
\* base keys, a subset of userId, errorCode, requestId, sessionId, region,
\* one key for each name sampled and each with a value that is not null;
\* and generate_field_value returns null for every other name.
C20_FieldPolicy ==
    /\ Called("generate_log_record") =>
           DOMAIN result[1]["data"] = FakeDataKeys
    /\ Called("log_entry") =>
           LET attached == (DOMAIN result[1]) \ BaseKeys
           IN  /\ attached \subseteq {"userId", "errorCode", "requestId",
                                      "sessionId", "region"}
               /\ Cardinality(attached) = Len(call[1].args)
               /\ \A k \in DOMAIN result[1] : result[1][k] # <<>>
    /\ Called("generate_field_value") =>
           (result[1] = <<>>) =
               (call[1].args \notin {"userId", "errorCode", "requestId",
                                     "sessionId", "region"})

\* An entry with three of the five optional fields, region among them
C20_Witness ==
    /\ Called("log_entry") /\ Len(call[1].args) = 3
    /\ "region" \in DOMAIN result[1] /\ "userId" \notin DOMAIN result[1]
    /\ result[1]["region"] # <<>>

-----------------------------------------------------------------------------
(* Properties of send_events_to_eventhub *)

\* Positions (values of sent_count at construction) of the delivered records
SentPositions == [j \in 1..Len(Flatten(sent)) |-> Flatten(sent)[j].idx]

TimesSent(k) ==
    Cardinality({j \in 1..Len(Flatten(sent)) : SentPositions[j] = k})

\* C1: whatever additions the transport rejects, when the run returns (with
\* total_events >= 0) sent_count equals total_events and equals the sum of
\* the sizes of the batches passed to send_batch, every counted position is
\* in exactly one sent batch, and batch_count is the number of send_batch
\* calls.
C1_CountsConsistent ==
    (pc = "done" /\ total_events >= 0) =>
        /\ sent_count = total_events
        /\ sent_count = SumLen(sent)
        /\ \A k \in 0..(sent_count - 1) : TimesSent(k) = 1
        /\ batch_count = Len(sent)

C1_Witness ==
    /\ pc = "done" /\ rejects >= 1 /\ total_events >= 3
    /\ Len(sent) >= 2 /\ sent_count = total_events

SameContent(a, b) == a.idx = b.idx /\ a.body = b.body

FreshForSamePosition(a, b) == a.idx = b.idx /\ a.seq > b.seq

\* The batch open while the first batch after the last rejection is filled
InBatchAfterReject(c) ==
    /\ batch_count = c.at + 1
    /\ pc \in {"inner", "add", "flush"}
    /\ event_data_batch # <<>>

\* C2 (as stated): after a rejection on a partially filled batch, that batch
\* is sent at once with the records accepted so far (the run ends there if
\* that send raises), and the rejected record itself, with the content it
\* was built with, is the first record of the next batch.
C2_RejectedRecordCarried ==
    (carry # <<>> /\ carry[1].accepted # <<>>) =>
        LET c == carry[1] IN
        /\ batch_count = c.at =>
               (failure # <<>> \/ (pc = "flush" /\ ShouldSend))
        /\ batch_count > c.at => sent[c.at + 1] = c.accepted
        /\ InBatchAfterReject(c) => SameContent(event_data_batch[1], c.rec)
        /\ Len(sent) >= c.at + 2 => SameContent(sent[c.at + 2][1], c.rec)

\* C2 (amended): after a rejection on a partially filled batch, that batch
\* is sent at once with the records accepted so far (the run ends there if
\* that send raises); the rejected record is discarded, and the first
\* record of the next batch is a record built anew
\* for the same position (same sent_count, hence same interpolated
\* timestamp), whose random content need not be the rejected record's.
C2_RejectedPositionRebuilt ==
    (carry # <<>> /\ carry[1].accepted # <<>>) =>
        LET c == carry[1] IN
        /\ batch_count = c.at =>
               (failure # <<>> \/ (pc = "flush" /\ ShouldSend))
        /\ batch_count > c.at => sent[c.at + 1] = c.accepted
        /\ InBatchAfterReject(c) =>
               FreshForSamePosition(event_data_batch[1], c.rec)
        /\ Len(sent) >= c.at + 2 =>
               FreshForSamePosition(sent[c.at + 2][1], c.rec)

C2_Witness ==
    /\ carry # <<>> /\ carry[1].accepted # <<>>
    /\ Len(sent) >= carry[1].at + 2
    /\ sent[carry[1].at + 1] = carry[1].accepted
    /\ sent[carry[1].at + 2][1].idx = carry[1].rec.idx
    /\ sent[carry[1].at + 2][1].body # carry[1].rec.body

\* Every accepted position is in a batch that was sent
NothingUnsent == \A k \in 0..(sent_count - 1) : TimesSent(k) >= 1

\* C3: for every total_events >= 0, every events_per_batch and every pattern
\* of rejections the loop eventually exits with sent_count = total_events
\* and no accepted record left in an unsent batch (unless a send_batch call
\* raised, which ends the run).
C3_Terminates ==
    (total_events >= 0) =>
        <>(\/ failure # <<>>
           \/ pc = "done" /\ sent_count = total_events /\ NothingUnsent)

\* C4: when the transport never rejects, total_events = T >= 0 and
\* events_per_batch = B >= 1 give exactly ceil(T/B) send_batch calls, the
\* first floor(T/B) batches hold B records, a last batch holds T mod B
\* records when that is not zero, and sent_count is T.
C4_BatchSizesWithoutRejects ==
    (pc = "done" /\ rejects = 0 /\ total_events >= 0 /\ events_per_batch >= 1)
    =>
        LET T == total_events
            B == events_per_batch
            full == T \div B
            rest == T % B
        IN  /\ Len(sent) = full + (IF rest = 0 THEN 0 ELSE 1)
            /\ \A i \in 1..full : Len(sent[i]) = B
            /\ rest # 0 => Len(sent[full + 1]) = rest
            /\ sent_count = T
            /\ batch_count = Len(sent)

C4_Witness ==
    /\ pc = "done" /\ rejects = 0
    /\ events_per_batch >= 2 /\ total_events > events_per_batch
    /\ total_events % events_per_batch # 0
    /\ Len(sent) = (total_events \div events_per_batch) + 1

\* The records in the batches passed to send_batch, in delivery order
Delivered == Flatten(sent)

Span == end_time - start_time

\* ts is start + (end - start) * k / total_events to the nearest microsecond
NearestToLinear(ts, k) ==
    LET err == (ts - start_time) * total_events - Span * k
    IN  2 * err <= total_events /\ -2 * err <= total_events

\* C12 (as stated): the k-th delivered record carries the timestamp
\* start + (end - start) * k / total_events (to the resolution of a
\* timestamp), every timestamp lies in [start, end), the first equals start
\* and the sequence is non-decreasing in delivery order, whatever the wall
\* clock and the grouping into batches.
C12_LinearTimestamps ==
    \A j \in 1..Len(Delivered) :
        /\ Delivered[j].idx = j - 1
        /\ NearestToLinear(Delivered[j].ts, j - 1)
        /\ start_time <= Delivered[j].ts /\ Delivered[j].ts < end_time
        /\ j = 1 => Delivered[j].ts = start_time
        /\ j > 1 => Delivered[j - 1].ts <= Delivered[j].ts

\* C12 (amended): with realtime_mode off the k-th delivered record carries
\* start + (end - start) * k / total_events rounded to the microsecond,
\* whatever the wall clock and the grouping into batches; the first equals
\* start; with start <= end the timestamps are non-decreasing and lie in
\* [start, end], and stay below end when total_events is at most the
\* number of microseconds from start to end; with end < start they are
\* non-increasing and lie in [end, start].  With realtime_mode on every
\* timestamp is a reading of the wall clock taken when the record was
\* built, later than end in the runs explored.
C12_RoundedTimestamps ==
    \A j \in 1..Len(Delivered) :
        /\ Delivered[j].idx = j - 1
        /\ ~realtime_mode =>
               /\ NearestToLinear(Delivered[j].ts, j - 1)
               /\ j = 1 => Delivered[j].ts = start_time
               /\ Span >= 0 =>
                      /\ start_time <= Delivered[j].ts
                      /\ Delivered[j].ts <= end_time
                      /\ j > 1 => Delivered[j - 1].ts <= Delivered[j].ts
               /\ (Span >= 0 /\ total_events <= Span) =>
                      Delivered[j].ts < end_time
               /\ Span < 0 =>
                      /\ end_time <= Delivered[j].ts
                      /\ Delivered[j].ts <= start_time
                      /\ j > 1 => Delivered[j - 1].ts >= Delivered[j].ts
        /\ realtime_mode =>
               /\ Delivered[j].ts > end_time /\ Delivered[j].ts <= now
               /\ j > 1 => Delivered[j - 1].ts <= Delivered[j].ts

\* A run with a rejection whose last delivered timestamp is rounded up to
\* end
C12_Witness ==
    /\ pc = "done" /\ ~realtime_mode /\ rejects >= 1 /\ Span > 0
    /\ Len(sent) >= 2 /\ Len(Delivered) = total_events
    /\ Delivered[Len(Delivered)].ts = end_time
    /\ Delivered[1].ts = start_time

\* C13: an absent total_events becomes int((end - start) in seconds * 2);
\* an explicit count, 0 included, is used as given; with a resulting
\* total_events <= 0 nothing is built or sent and the emitter returns
\* (0, 0) without raising.
C13_DefaultTotal ==
    /\ total_events_arg = <<>> =>
           total_events = TruncDiv(2 * Span, MicrosPerSecond)
    /\ total_events_arg # <<>> => total_events = total_events_arg[1]
    /\ total_events <= 0 =>
           /\ pc \in {"outer", "done"}
           /\ built = 0 /\ sent = <<>>
           /\ sent_count = 0 /\ batch_count = 0

\* A run over three quarters of a second with total_events absent: one
\* record
C13_Witness ==
    /\ pc = "done" /\ total_events_arg = <<>>
    /\ Span = 3 * QuarterSecond
    /\ total_events = 1 /\ sent_count = 1 /\ Len(sent) = 1

-----------------------------------------------------------------------------
(* Properties of send_continuous_stream *)

Interrupted == stop # <<>> /\ stop[1].why = "interrupt"

InSent(r) == \E j \in 1..Len(Flatten(sent)) : Flatten(sent)[j] = r

InBatch(r) == \E j \in 1..Len(event_data_batch) : event_data_batch[j] = r

\* C7 (as stated): the interrupt takes effect only at a cycle boundary, so
\* the unit being assembled or sent when it arrives is not abandoned: every
\* record accepted into a unit is in a unit passed to send_batch.
C7_NoUnitAbandoned ==
    Interrupted => \A n \in 0..(built - 1) : InBatch([seq |-> n]) => InSent([seq |-> n])

\* C7 (amended): the interrupt takes effect at the point of the loop where
\* it arrives, not only at a cycle boundary: when it arrives while a unit is
\* being assembled or before send_batch is called for it, that unit is
\* abandoned (none of its records is ever sent) and the units sent before
\* stand; only the duration budget is checked at the cycle boundary.
C7_InterruptAbandonsUnit ==
    stop # <<>> =>
        /\ pc \in {"done", "raised"}
        /\ Len(sent) = stop[1].nsent
        /\ stop[1].why = "duration" => stop[1].at = "check"
        /\ (stop[1].why = "interrupt" /\ stop[1].at \in {"fill", "send"}) =>
               /\ \A n \in 0..(built - 1) :
                      InBatch([seq |-> n]) => ~InSent([seq |-> n])
               /\ Len(sent) = batch_count

C7_Witness ==
    /\ Interrupted /\ stop[1].at = "fill"
    /\ Len(event_data_batch) >= 1 /\ Len(sent) >= 1
    /\ ~InSent(event_data_batch[1])

\* C8: wherever in the loop the interrupt arrives, the loop stops, no
\* send_batch is issued after it, the function returns normally, and the
\* counter it reports covers every unit whose send_batch completed before
\* the interrupt.
C8_InterruptCountsSentUnits ==
    Interrupted =>
        /\ pc = "done"
        /\ Len(sent) = stop[1].nsent
        /\ sent_count >= SumLen(sent)

\* C9: in every cycle sleep_time is max(0, target - elapsed), so the time
\* from one cycle start to the next is max(target, work time of the cycle);
\* a cycle whose work time reaches the target does not sleep; and the sleep
\* is a function of the cycle's own elapsed time alone.
C9_PacingPerCycle ==
    /\ pc \in {"sleep", "check"} =>
           /\ sleep_time = Max(0, TargetBatchDuration - batch_duration)
           /\ batch_duration >= TargetBatchDuration =>
                  (sleep_time = 0 /\ pc = "check")
    /\ pc = "sleep" => clock - batch_start = batch_duration
    /\ pc = "check" =>
           clock - batch_start = Max(TargetBatchDuration, batch_duration)
    /\ (pc = "fill" /\ batch_count >= 1) =>
           batch_start - prev_start = Max(TargetBatchDuration, batch_duration)

\* A cycle that sleeps right after a cycle that overran its target
C9_Witness ==
    /\ pc = "check" /\ batch_count >= 2
    /\ batch_start - prev_start > TargetBatchDuration
    /\ sleep_time > 0
    /\ sleep_time = TargetBatchDuration - batch_duration

\* C10: for every duration_seconds that is supplied (0 included) the loop
\* is left at the first cycle boundary at which the elapsed time has reached
\* the budget.
C10_StopsAtBudget ==
    [][(/\ pc = "check"
        /\ duration_seconds # <<>>
        /\ Elapsed >= duration_seconds[1] * TicksPerSecond) => pc' = "done"]_vars

\* C11: in both stream emitters, when send_batch raises the exception
\* leaves the emitter, the failed unit is not sent again, no further batch
\* is created or sent in the run, and the units sent before stand.
C11_SendFailureIsFatal ==
    failure # <<>> =>
        /\ pc = "raised"
        /\ ~ENABLED Next
        /\ sent = failure[1].before
        /\ event_data_batch = failure[1].unit
        /\ \A j \in 1..Len(event_data_batch) : ~InSent(event_data_batch[j])
        /\ batch_count = Len(sent)

\* A send that failed after an earlier unit was sent, with records left to
\* emit
C11_Witness ==
    /\ failure # <<>> /\ pc = "raised"
    /\ failure[1].before # <<>> /\ failure[1].unit # <<>>
    /\ sent_count < total_events

-----------------------------------------------------------------------------
(* Properties of the three emitters *)

InOrder(rs) ==
    \A i \in 1..Len(rs) : \A j \in 1..Len(rs) : i < j => rs[i].seq < rs[j].seq

\* C14: in every run of the three emitters the records are passed to the
\* sink (add of the batch object, or the lines of a file) in the order of
\* their construction, with no constructed record left out or overtaken:
\* the i-th record handed over is the i-th record constructed, only the
\* record just built is still to be handed over, and the batches passed to
\* send_batch and the lines of a file keep that order.
C14_ConstructionOrder ==
    /\ \A i \in 1..Len(handed) : handed[i] = i - 1
    /\ Len(handed) = built - Len(record)
    /\ InOrder(Delivered)
    /\ InOrder(event_data_batch)
    /\ InOrder(records)
    /\ \A i \in 1..Len(records) :
           records[i].seq = handed[Len(handed) - Len(records) + i]

\* A finished stream batch run in which the transport rejected a record and
\* two batches or more were sent
C14_Witness ==
    /\ pc = "done" /\ rejects >= 1 /\ Len(sent) >= 2
    /\ Len(handed) = built /\ built > Len(Delivered)
    /\ Len(Delivered) >= 3

-----------------------------------------------------------------------------
(* Properties of generate_partitioned_files *)

\* C5: every record written to a file under a partition directory has a
\* timestamp whose own partition key is that directory, for every
\* start_time (seconds past the minute included) and every jitter.
C5_RecordsInOwnPartition ==
    fs # <<>> =>
        \A i \in 1..Len(records) :
            PartitionKey(records[i].ts) = fs[Len(fs)].dir

\* Number of whole minutes from start_time to end_time
WholeMinutes == (f_end_time - f_start_time) \div 60

\* C6: with end - start = k whole minutes, N files_per_minute and M
\* records_per_file, exactly k*N files are written, each of M records and
\* each in the partition directory of the minute the cursor held; the
\* totals returned are (k*N, k*N*M); the minute at end gets no file; and
\* start >= end writes no file.
C6_FilesPerWholeMinutes ==
    /\ (/\ pc = "done"
        /\ f_end_time >= f_start_time
        /\ (f_end_time - f_start_time) % 60 = 0) =>
           /\ Len(fs) = WholeMinutes * files_per_minute
           /\ total_files = WholeMinutes * files_per_minute
           /\ total_records =
                  WholeMinutes * files_per_minute * records_per_file
           /\ \A i \in 1..Len(fs) :
                  /\ fs[i].lines = records_per_file
                  /\ fs[i].dir = PartitionKey(
                         f_start_time + 60 * ((i - 1) \div files_per_minute))
                  /\ fs[i].dir # PartitionKey(f_end_time)
    /\ (pc = "done" /\ f_start_time >= f_end_time) =>
           (fs = <<>> /\ total_files = 0 /\ total_records = 0)

\* a <= b in the order of partition keys (year first, minute last)
KeyLeq(a, b) ==
    \E i \in 1..6 :
        /\ \A j \in 1..(i - 1) : a[j] = b[j]
        /\ i = 6 \/ a[i] < b[i]

\* The cursor moves at the end of an iteration and only there
CursorStep ==
    /\ (pc = "files" /\ pc' = "while") => current_time' = current_time + 60
    /\ ~(pc = "files" /\ pc' = "while") => current_time' = current_time
    /\ KeyLeq(PartitionKey(current_time), PartitionKey(current_time'))

\* C16: every iteration of the loop moves the cursor forward by exactly one
\* minute, at its end and whether or not a file was written in it
\* (files_per_minute = 0 included); the partition keys of the cursor never
\* decrease; and for every start and end the loop ends, with the cursor at
\* or after end.
C16_CursorAdvances ==
    /\ [][CursorStep]_vars
    /\ [](pc = "done" => current_time >= f_end_time)
    /\ <>(pc = "done")

\* A finished run over two minutes or more with files_per_minute = 0
C16_Witness ==
    /\ pc = "done" /\ files_per_minute = 0 /\ fs = <<>>
    /\ current_time >= f_start_time + 120
    /\ current_time >= f_end_time
    /\ PartitionKey(f_start_time) # PartitionKey(current_time)

C6_Witness ==
    /\ pc = "done"
    /\ (f_end_time - f_start_time) % 60 = 0 /\ WholeMinutes >= 2
    /\ files_per_minute >= 2 /\ records_per_file >= 1
    /\ Len(fs) = WholeMinutes * files_per_minute
    /\ fs[1].dir # fs[Len(fs)].dir

-----------------------------------------------------------------------------
(* Pauses of send_events_to_eventhub *)

\* The pauses made after the k-th send_batch call and before the next one
PausesAfter(k) == {i \in DOMAIN pauses : pauses[i].after = k}

\* C21: with delay_between_batches > 0 exactly one pause, of that length,
\* separates every two successive send_batch calls, and every pause lies
\* between two successive sends: none before the first send and none after
\* the last; with delay_between_batches = 0 there is no pause at all.
C21_PausesOnlyBetweenSends ==
    /\ delay_between_batches = 0 => pauses = <<>>
    /\ delay_between_batches > 0 =>
           /\ \A k \in 1..(batch_count - 1) :
                  Cardinality(PausesAfter(k)) = 1
           /\ \A i \in DOMAIN pauses :
                  /\ pauses[i].len = delay_between_batches
                  /\ pauses[i].after >= 1
                  /\ pc = "done" => pauses[i].after < batch_count

-----------------------------------------------------------------------------
(* Partition directories of generate_partitioned_files *)

\* Iterations of the while loop of one run: the minutes it enters
Iterations ==
    IF f_end_time > f_start_time
    THEN (f_end_time - f_start_time + 59) \div 60
    ELSE 0

\* The files on disk that run r wrote
FilesOfRun(r) == {i \in DOMAIN fs : fs[i].run = r}

\* C22: entering a minute whose directory exists already (a run over a
\* range that an earlier run covered) or writing a further file into a
\* minute never fails; every minute entered has one directory, so a later
\* run adds none; and every file an earlier run or the same run wrote is
\* still on disk with its lines.
C22_MkdirIdempotent ==
    /\ failure = <<>> /\ pc # "raised"
    /\ \A i \in DOMAIN fs : fs[i].dir \in dirs
    /\ (pc = "done" \/ runs > 1) => Cardinality(dirs) = Iterations
    /\ \A r \in 1..runs :
           /\ \A i \in FilesOfRun(r) : fs[i].lines = records_per_file
           /\ (r < runs \/ pc = "done") =>
                  Cardinality(FilesOfRun(r)) = Iterations * files_per_minute

\* A second run over two minutes has written its two files per minute
\* into the directories of the first run
C22_Witness ==
    /\ pc = "done" /\ runs > 1 /\ files_per_minute > 1
    /\ Iterations > 1 /\ records_per_file > 0
    /\ Cardinality(dirs) = Iterations
    /\ Len(fs) = runs * Iterations * files_per_minute

-----------------------------------------------------------------------------
(* Counters and unit sizes of the stream emitters *)

\* Positions of send_continuous_stream at which every unit sent so far has
\* been counted
CountedPcs == {"cycle", "pace", "sleep", "check", "done"}

\* C23: in a run that is not interrupted, whenever every unit sent so far
\* has been counted, and so at the return, sent_count is the number of
\* records in the units passed to send_batch, also when the transport cut
\* cycles short.
C23_SentCountIsRecordsSent ==
    (pc \in CountedPcs /\ ~Interrupted) => sent_count = SumLen(sent)

\* The units passed to send_batch all hold between lo and hi records
UnitSizesWithin(lo, hi) ==
    \A i \in DOMAIN sent : lo <= Len(sent[i]) /\ Len(sent[i]) <= hi

\* C24: every unit send_continuous_stream passes to send_batch holds at
\* least 1 and at most events_per_batch records, whatever the transport
\* rejects.
C24_ContUnitSizes == UnitSizesWithin(1, events_per_batch)

\* C25: every batch send_events_to_eventhub passes to send_batch holds at
\* least 1 and at most events_per_batch records, whatever the transport
\* rejects; an iteration that accepted no record sends nothing and leaves
\* batch_count as it is: batch_count is the number of send_batch calls, and
\* after an inner loop that accepted nothing it is the number of batches
\* sent before that loop.
C25_BatchUnitSizes ==
    /\ UnitSizesWithin(1, events_per_batch)
    /\ batch_count = Len(sent)
    /\ (pc \in {"flush", "delay"} /\ carry # <<>> /\ batch_events = 0) =>
           (batch_count = carry[1].at /\ carry[1].accepted = <<>>)

\* A run has returned in which the transport rejected the first record
\* offered to a batch and batches were sent before and after
C25_Witness ==
    /\ pc = "done" /\ carry # <<>> /\ carry[1].accepted = <<>>
    /\ carry[1].at >= 1 /\ batch_count > carry[1].at
    /\ batch_count = Len(sent)

-----------------------------------------------------------------------------
(* main of send_logs_to_eventhub.py *)

\* The run was cancelled by the user in batch mode
Cancelled == failure # <<>> /\ "interrupt" \in DOMAIN failure[1]

\* A send_batch call raised
SendFailed == failure # <<>> /\ "unit" \in DOMAIN failure[1]

\* Once closed, the producer is sent nothing
NoSendAfterClose == producer = "closed" => sent' = sent

\* C26: close() is never called twice and the producer is closed exactly
\* when it was called; a program that created the producer ends with
\* exactly one close() call, whether the emitter returned, a send failed, a
\* timestamp did not parse or the user cancelled; and nothing is sent
\* after close().
C26_ProducerClosedOnce ==
    /\ [](closes <= 1 /\ (closes = 1 <=> producer = "closed"))
    /\ []((pc = "exit" /\ producer # "none") => closes = 1)
    /\ [][NoSendAfterClose]_vars

\* The user cancelled a batch run after its first send, and the program
\* has ended
C26_Witness ==
    /\ pc = "exit" /\ Cancelled /\ sent # <<>>
    /\ producer = "closed" /\ closes = 1

\* Positions of send_events_to_eventhub
BatchPcs == {"outer", "inner", "add", "flush", "delay"}

\* The unit size main gives send_continuous_stream
CappedSize ==
    IF config.events_per_batch <= ContinuousBatchCap
    THEN config.events_per_batch
    ELSE ContinuousBatchCap

\* C27: main calls at most one emitter, send_events_to_eventhub when mode
\* is "batch" and send_continuous_stream for any other mode, and a program
\* that ends without an error has called exactly one; records are built
\* only by the emitter called.  In continuous mode the unit size is
\* min(configured events_per_batch, 10), no unit sent is larger, and the
\* sleep of a cycle is computed from the target capped size /
\* events_per_second, so the rate aimed at is events_per_second.
C27_OneEmitterAndCap ==
    config.program = "send_logs" =>
        /\ Cardinality(ran) <= 1
        /\ ran \subseteq (IF config.mode = "batch" THEN {"batch"}
                          ELSE {"continuous"})
        /\ pc \in BatchPcs => ran = {"batch"}
        /\ pc \in LoopPcs => ran = {"continuous"}
        /\ (built > 0 \/ sent # <<>>) => ran # {}
        /\ exit_status = "ok" => Cardinality(ran) = 1
        /\ ran = {"continuous"} =>
               /\ events_per_batch = CappedSize
               /\ UnitSizesWithin(0, CappedSize)
               /\ (pc \in {"sleep", "check"} /\ events_per_second # 0) =>
                      /\ sleep_time + batch_duration >=
                             (CappedSize * TicksPerSecond)
                                 \div events_per_second
                      /\ sleep_time > 0 =>
                             (sleep_time + batch_duration)
                                 * events_per_second
                             = CappedSize * TicksPerSecond

\* A continuous run configured with more than 10 events per batch has sent
\* a unit of 10 records and sleeps for the rest of the target
C27_Witness ==
    /\ config.program = "send_logs" /\ ran = {"continuous"}
    /\ config.events_per_batch > ContinuousBatchCap
    /\ pc = "sleep" /\ sleep_time > 0
    /\ sent # <<>> /\ Len(sent[1]) = ContinuousBatchCap


====
